---- MODULE Spec2Model ----
(***************************************************************************)
(* Model of the static-site build pipeline of src/src/main.py: the full    *)
(* build (purge, scan, stale-slug reconciliation, slug cache, rendering,   *)
(* tag pages, sitemap), the single-file build, --clean, and the responsive *)
(* image fallback selection.                                               *)
(*                                                                         *)
(* Strings are sequences of tokens ("content", "/", "about", ".md", ...);  *)
(* concatenation is \o, so prefix tests, basename, splitext and lstrip are *)
(* computed on the text as the code computes them.  The working directory  *)
(* is one tree: files maps a normalised path to what the file holds, dirs  *)
(* is the set of directories.                                              *)
(***************************************************************************)
EXTENDS Integers, Sequences, FiniteSets, TLC

VARIABLES files, dirs, pc, loc, last, snap, prev, ops, img, rec

vars == <<files, dirs, pc, loc, last, snap, prev, ops, img, rec>>

----------------------------------------------------------------------------
(* Bounds *)

MaxOps == 4
MaxWidth == 2

----------------------------------------------------------------------------
(* Text *)

Sep == "/"

S(t) == <<t>>

IsPrefix(p, s) == Len(p) <= Len(s) /\ SubSeq(s, 1, Len(p)) = p

SetMax(X) == CHOOSE x \in X : \A y \in X : y <= x
SetMin(X) == CHOOSE x \in X : \A y \in X : x <= y

SepIdx(p) == {i \in 1..Len(p) : p[i] = Sep}

Range(s) == {s[i] : i \in 1..Len(s)}

\* code-point order of the first character of each token
TokRank(t) ==
  CASE t = "." -> 1
    [] t = ".cache" -> 2
    [] t = ".css" -> 3
    [] t = ".hash" -> 4
    [] t = ".html" -> 5
    [] t = ".json" -> 6
    [] t = ".md" -> 7
    [] t = ".png" -> 8
    [] t = ".xml" -> 9
    [] t = "/" -> 10
    [] t = "__" -> 11
    [] t = "about" -> 12
    [] t = "assets" -> 13
    [] t = "content" -> 14
    [] t = "css" -> 15
    [] t = "generated.daisyui" -> 16
    [] t = "index" -> 17
    [] t = "logo" -> 18
    [] t = "page-slugs" -> 19
    [] t = "photo" -> 20
    [] t = "posts" -> 21
    [] t = "sitemap" -> 22
    [] t = "t" -> 23
    [] t = "tags" -> 24
    [] t = "u" -> 25
    [] OTHER -> 26

RECURSIVE StrLess(_, _)
StrLess(a, b) ==
  IF b = <<>> THEN FALSE
  ELSE IF a = <<>> THEN TRUE
  ELSE IF a[1] = b[1] THEN StrLess(Tail(a), Tail(b))
  ELSE TokRank(a[1]) < TokRank(b[1])

\* sorted(X) for a set of strings
RECURSIVE sorted(_)
sorted(X) ==
  IF X = {} THEN <<>>
  ELSE LET m == CHOOSE x \in X : \A y \in X \ {x} : StrLess(x, y)
       IN <<m>> \o sorted(X \ {m})

Exts == {".md", ".html", ".xml", ".json", ".hash", ".png", ".css"}

\* os.path.basename, os.path.dirname, os.path.splitext, str.lstrip("/")
basename(p) ==
  IF SepIdx(p) = {} THEN p ELSE SubSeq(p, SetMax(SepIdx(p)) + 1, Len(p))

dirname(p) ==
  IF SepIdx(p) = {} THEN <<>> ELSE SubSeq(p, 1, SetMax(SepIdx(p)) - 1)

splitext(name) ==
  IF Len(name) > 1 /\ name[Len(name)] \in Exts
  THEN <<SubSeq(name, 1, Len(name) - 1), <<name[Len(name)]>>>>
  ELSE <<name, <<>>>>

endswith(name, ext) == Len(name) >= 1 /\ name[Len(name)] = ext

RECURSIVE lstrip(_)
lstrip(s) == IF s # <<>> /\ s[1] = Sep THEN lstrip(Tail(s)) ELSE s

\* os.path.join and os.path.normpath on relative paths ("./x" -> "x", "." -> "")
join(a, b) == IF a = <<>> THEN b ELSE a \o <<Sep>> \o b

normpath(p) ==
  IF p = <<".">> THEN <<>>
  ELSE IF IsPrefix(<<".", Sep>>, p) THEN SubSeq(p, 3, Len(p))
  ELSE p

\* first component of a relative directory, "" for the root
top_level(d) ==
  IF d = <<>> THEN <<>>
  ELSE IF SepIdx(d) = {} THEN d
  ELSE SubSeq(d, 1, SetMin(SepIdx(d)) - 1)

\* p lies strictly inside directory d
Under(p, d) == d = <<>> \/ IsPrefix(d \o <<Sep>>, p)

\* every directory on the way down to d, d included
Ancestors(d) ==
  IF d = <<>> THEN {}
  ELSE {d} \cup {SubSeq(d, 1, i - 1) : i \in SepIdx(d)}

----------------------------------------------------------------------------
(* Program constants *)

OUTPUT_DIR == <<".">>
CONTENT_DIR == <<"content">>
POSTS_DIR == <<"content", Sep, "posts">>
CACHE_DIR == <<".cache">>
PAGE_SLUG_CACHE == <<".cache", Sep, "page-slugs", ".json">>

\* a slip that lists the posts tree among the preserved roots
preserved_roots_with_posts ==
  {S(".git"), S(".github"), S(".cache"), S("assets"), S("content"),
   S("node_modules"), S("src"), S("templates"), S("posts")}

preserved_roots ==
  {S(".git"), S(".github"), S(".cache"), S("assets"), S("content"),
   S("node_modules"), S("src"), S("templates")}

generated_roots == {S("blog"), S("tags"), S("posts")}

\* keys of the loaded template table (templates/page.html, post.html, tags.html)
templates == {"page", "post", "tags"}

----------------------------------------------------------------------------
(* File system primitives *)

exists(f, d, p) == normpath(p) \in DOMAIN f \/ normpath(p) \in d \/ normpath(p) = <<>>

isdir(d, p) == normpath(p) \in d \/ normpath(p) = <<>>

makedirs(d, p) == d \cup Ancestors(normpath(p))

WriteFile(f, p, c) ==
  [q \in DOMAIN f \cup {normpath(p)} |-> IF q = normpath(p) THEN c ELSE f[q]]

RemoveFiles(f, gone) == [q \in DOMAIN f \ gone |-> f[q]]

\* shutil.rmtree
rmtree_files(f, p) == RemoveFiles(f, {q \in DOMAIN f : Under(q, normpath(p))})
rmtree_dirs(d, p) == {q \in d : q # normpath(p) /\ ~Under(q, normpath(p))}

\* os.listdir: the names directly inside directory p, in one fixed order
listdir(f, d, p) ==
  sorted({basename(q) : q \in {r \in DOMAIN f \cup d : r # <<>> /\ dirname(r) = normpath(p)}})

----------------------------------------------------------------------------
(* ChangeTracker: the persisted slug set *)

load_previous_slugs(f) ==
  IF PAGE_SLUG_CACHE \in DOMAIN f /\ f[PAGE_SLUG_CACHE].kind = "json"
  THEN Range(f[PAGE_SLUG_CACHE].list)
  ELSE {}

save_current_slugs_files(f, slugs) ==
  WriteFile(f, PAGE_SLUG_CACHE, [kind |-> "json", list |-> sorted(slugs)])

save_current_slugs_dirs(d) == makedirs(d, dirname(PAGE_SLUG_CACHE))

----------------------------------------------------------------------------
(* OutputReconciler: the purge that opens a full build and serves --clean *)

delete_file(top, filename) ==
  \/ top \in generated_roots
  \/ filename = <<"index", ".html">>
  \/ endswith(filename, ".xml")

clean_output_files(f) ==
  RemoveFiles(f, {q \in DOMAIN f :
                    /\ top_level(dirname(q)) \notin preserved_roots
                    /\ delete_file(top_level(dirname(q)), basename(q))})

\* walked bottom-up, a directory outside the preserved roots goes once
\* nothing is left anywhere below it
clean_output_dirs(f, d) ==
  {q \in d : \/ top_level(q) \in preserved_roots
             \/ \E r \in DOMAIN clean_output_files(f) : Under(r, q)}

----------------------------------------------------------------------------
(* ContentHashCache *)

\* hashlib.md5 of the file's bytes, as a small digest of what the file holds
Ord(s) ==
  CASE s = "None" -> 1
    [] s = "True" -> 2
    [] s = "Yes" -> 3
    [] s = "1" -> 4
    [] s = "page" -> 5
    [] s = "post" -> 6
    [] s = "iso" -> 7
    [] s = "text" -> 8
    [] OTHER -> 9

Md5(c) ==
  IF c.kind = "md"
  THEN (c.body * 37 + Ord(c.meta.draft[2]) * 11 + Ord(c.meta.layout) * 5
        + Ord(c.meta.date.k) * 53 + c.meta.date.n * 3 + Len(c.meta.tags)) % 251
  ELSE 0

RECURSIVE replace_sep(_)
replace_sep(p) ==
  IF p = <<>> THEN <<>>
  ELSE <<IF p[1] = Sep THEN "__" ELSE p[1]>> \o replace_sep(Tail(p))

hash_file(filepath) ==
  join(CACHE_DIR, replace_sep(normpath(filepath)) \o <<".hash">>)

\* the return value of has_file_changed
has_file_changed(f, filepath) ==
  ~ (/\ hash_file(filepath) \in DOMAIN f
     /\ f[hash_file(filepath)] = [kind |-> "hash", digest |-> Md5(f[normpath(filepath)])])

\* the cache file it leaves behind: rewritten unless the stored digest matches
has_file_changed_files(f, filepath) ==
  IF has_file_changed(f, filepath)
  THEN WriteFile(f, hash_file(filepath),
                 [kind |-> "hash", digest |-> Md5(f[normpath(filepath)])])
  ELSE f

has_file_changed_dirs(d) == makedirs(d, CACHE_DIR)

----------------------------------------------------------------------------
(* DocumentCompiler *)

NoDate == [k |-> "none", n |-> 0]

\* date normalisation: an ISO-parseable value becomes a YYYY-MM-DD string,
\* anything else is left as it is
normalize_date(date) ==
  IF date.k = "iso" THEN [k |-> "ymd", n |-> date.n] ELSE date

\* the url parse_file assigns
derive_url(filepath) ==
  LET slug == splitext(basename(filepath))[1]
  IN IF IsPrefix(normpath(POSTS_DIR), normpath(filepath))
     THEN <<Sep, "posts", Sep>> \o slug
     ELSE IF slug = <<"index">> THEN <<Sep>>
     ELSE <<Sep>> \o slug

parse_file(f, filepath) ==
  IF normpath(filepath) \notin DOMAIN f \/ f[normpath(filepath)].kind # "md"
  THEN [found |-> FALSE]
  ELSE LET c == f[normpath(filepath)]
       IN [found |-> TRUE,
           data |-> [c.meta EXCEPT !.url = derive_url(filepath),
                                   !.date = normalize_date(c.meta.date)],
           src |-> normpath(filepath),
           html |-> [md |-> c.body]]

\* str(...).lower() of the draft value
lower(s) ==
  CASE s = "True" -> "true"
    [] s = "False" -> "false"
    [] s = "None" -> "none"
    [] s = "Yes" -> "yes"
    [] s = "YES" -> "yes"
    [] s = "TRUE" -> "true"
    [] OTHER -> s

is_draft(page_data) == lower(page_data.draft[2]) \in {"true", "1", "yes"}

----------------------------------------------------------------------------
(* Page rendering *)

output_path(page_config) ==
  IF page_config.url = <<Sep>>
  THEN join(OUTPUT_DIR, <<"index", ".html">>)
  ELSE join(OUTPUT_DIR, join(lstrip(page_config.url), <<"index", ".html">>))

final_html(p, with_posts, all_posts) ==
  [kind |-> "html", template |-> p.data.layout, page |-> p.data,
   src |-> p.src, content |-> p.html,
   posts |-> IF p.data.layout = "blog" /\ with_posts THEN all_posts ELSE <<>>]

render_page_files(f, p, with_posts, all_posts) ==
  IF p.data.layout \notin templates THEN f
  ELSE WriteFile(f, output_path(p.data), final_html(p, with_posts, all_posts))

render_page_dirs(d, p) ==
  IF p.data.layout \notin templates THEN d
  ELSE makedirs(d, dirname(output_path(p.data)))

----------------------------------------------------------------------------
(* SiteAssembler: the steps of a full build *)

GENERATED_THEME_PATH == <<"assets", Sep, "css", Sep, "generated.daisyui", ".css">>

NoLocals ==
  [previous_slugs |-> {}, current_slugs |-> {}, removed |-> {}, todo |-> {},
   pages |-> <<>>, sitemap_list |-> <<>>, all_posts |-> <<>>, tags |-> <<>>,
   i |-> 1]

\* tags.setdefault(tag, []).append(page_data), in insertion order
add_tag(tags, tag, page_data) ==
  IF \E k \in 1..Len(tags) : tags[k].name = tag
  THEN [k \in 1..Len(tags) |->
          IF tags[k].name = tag
          THEN [tags[k] EXCEPT !.posts = Append(@, page_data)]
          ELSE tags[k]]
  ELSE Append(tags, [name |-> tag, posts |-> <<page_data>>])

RECURSIVE add_tags(_, _, _)
add_tags(tags, taglist, page_data) ==
  IF taglist = <<>> THEN tags
  ELSE add_tags(add_tag(tags, Head(taglist), page_data), Tail(taglist), page_data)

\* one iteration of the loops over os.listdir(CONTENT_DIR) / os.listdir(POSTS_DIR)
scan_one(f, dir, filename, l) ==
  LET p == parse_file(f, join(dir, filename))
      slug == splitext(filename)[1]
      in_posts == dir = POSTS_DIR
  IN IF ~endswith(filename, ".md") \/ ~p.found \/ is_draft(p.data) THEN l
     ELSE [l EXCEPT
             !.current_slugs = @ \cup {IF in_posts THEN <<"posts", Sep>> \o slug ELSE slug},
             !.pages = Append(@, p),
             !.sitemap_list = Append(@, p.data.url),
             !.all_posts = IF in_posts /\ p.data.layout = "post"
                           THEN Append(@, p.data) ELSE @,
             !.tags = IF in_posts /\ p.data.layout = "post"
                      THEN add_tags(@, p.data.tags, p.data) ELSE @]

RECURSIVE scan_dir(_, _, _, _)
scan_dir(f, dir, names, l) ==
  IF names = <<>> THEN l
  ELSE scan_dir(f, dir, Tail(names), scan_one(f, dir, Head(names), l))

scan(f, d, l) ==
  LET top == scan_dir(f, CONTENT_DIR, listdir(f, d, CONTENT_DIR),
                      [l EXCEPT !.previous_slugs = load_previous_slugs(f)])
  IN IF exists(f, d, POSTS_DIR)
     THEN scan_dir(f, POSTS_DIR, listdir(f, d, POSTS_DIR), top)
     ELSE top

\* a slip that takes the difference the wrong way round
stale_reversed(previous_slugs, current_slugs) == current_slugs \ previous_slugs

\* removed = previous_slugs - current_slugs
stale(previous_slugs, current_slugs) == previous_slugs \ current_slugs

\* a stale slug whose directory the reconciliation removes
prunable(slug) == ~IsPrefix(<<"posts", Sep>>, slug) /\ slug # <<"index">>

\* sort keys: datetime.strptime fails on anything but a YYYY-MM-DD string
all_posts_key_ok(x) == x.date.k \in {"none", "ymd"}
all_posts_key(x) == IF x.date.k = "none" THEN 0 ELSE x.date.n

tag_key_ok(x) == x.date.k = "ymd"

\* list.sort(key=..., reverse=True): descending, equal keys keep their order
insert_desc(sortedseq, x) ==
  LET n == Cardinality({k \in 1..Len(sortedseq) :
                          all_posts_key(sortedseq[k]) >= all_posts_key(x)})
  IN SubSeq(sortedseq, 1, n) \o <<x>> \o SubSeq(sortedseq, n + 1, Len(sortedseq))

RECURSIVE sort_desc(_, _)
sort_desc(done, rest) ==
  IF rest = <<>> THEN done
  ELSE sort_desc(insert_desc(done, Head(rest)), Tail(rest))

\* tag_pages after os.makedirs: one page per tag until a sort key fails
RECURSIVE tag_pages_files(_, _)
tag_pages_files(f, tags) ==
  IF tags = <<>> THEN f
  ELSE IF \E k \in 1..Len(Head(tags).posts) : ~tag_key_ok(Head(tags).posts[k]) THEN f
  ELSE tag_pages_files(
         WriteFile(f, join(OUTPUT_DIR, <<"tags", Sep, Head(tags).name, ".html">>),
                   [kind |-> "html", template |-> "tags", tag_name |-> Head(tags).name,
                    posts |-> sort_desc(<<>>, Head(tags).posts)]),
         Tail(tags))

tag_pages_ok(tags) ==
  \A t \in 1..Len(tags) : \A k \in 1..Len(tags[t].posts) : tag_key_ok(tags[t].posts[k])

\* a slip that prunes stale directories only once the pages are written
NextStepLateReconcile(p) ==
  CASE p = "clean" -> "scan"
    [] p = "scan" -> "diff"
    [] p = "diff" -> "save"
    [] p = "save" -> "sort"
    [] p = "sort" -> "render"
    [] p = "render" -> "reconcile"
    [] p = "reconcile" -> "tags"
    [] p = "tags" -> "sitemap"
    [] p = "sitemap" -> "done"
    [] OTHER -> "done"

\* a slip that persists the current slugs before the stale ones are handled
NextStepSaveFirst(p) ==
  CASE p = "clean" -> "scan"
    [] p = "scan" -> "save"
    [] p = "save" -> "diff"
    [] p = "diff" -> "reconcile"
    [] p = "reconcile" -> "sort"
    [] p = "sort" -> "render"
    [] p = "render" -> "tags"
    [] p = "tags" -> "sitemap"
    [] p = "sitemap" -> "done"
    [] OTHER -> "done"

\* the order of the steps of main()'s full-build branch
NextStep(p) ==
  CASE p = "clean" -> "scan"
    [] p = "scan" -> "diff"
    [] p = "diff" -> "reconcile"
    [] p = "reconcile" -> "save"
    [] p = "save" -> "sort"
    [] p = "sort" -> "render"
    [] p = "render" -> "tags"
    [] p = "tags" -> "sitemap"
    [] p = "sitemap" -> "done"
    [] OTHER -> "done"

\* one step of the full build on b = [pc, files, dirs, l]
Step(b) ==
  LET f == b.files
      d == b.dirs
      l == b.l
      nxt == NextStep(b.pc)
  IN CASE b.pc = "clean" ->
            [b EXCEPT !.pc = nxt, !.files = clean_output_files(f),
                      !.dirs = clean_output_dirs(f, d)]
       [] b.pc = "scan" ->
            [b EXCEPT !.pc = nxt, !.l = scan(f, d, l)]
       [] b.pc = "diff" ->
            [b EXCEPT !.pc = nxt,
                      !.l = [l EXCEPT !.removed = stale(l.previous_slugs, l.current_slugs),
                                      !.todo = stale(l.previous_slugs, l.current_slugs)]]
       [] b.pc = "reconcile" ->
            IF l.todo = {} THEN [b EXCEPT !.pc = nxt]
            ELSE LET slug == CHOOSE x \in l.todo : \A y \in l.todo \ {x} : StrLess(x, y)
                     out_dir == join(OUTPUT_DIR, slug)
                     hit == prunable(slug) /\ isdir(d, out_dir)
                 IN [b EXCEPT !.l = [l EXCEPT !.todo = @ \ {slug}],
                              !.files = IF hit THEN rmtree_files(f, out_dir) ELSE f,
                              !.dirs = IF hit THEN rmtree_dirs(d, out_dir) ELSE d]
       [] b.pc = "save" ->
            [b EXCEPT !.pc = nxt,
                      !.files = save_current_slugs_files(f, l.current_slugs),
                      !.dirs = save_current_slugs_dirs(d)]
       [] b.pc = "sort" ->
            IF \E k \in 1..Len(l.all_posts) : ~all_posts_key_ok(l.all_posts[k])
            THEN [b EXCEPT !.pc = "failed"]
            ELSE [b EXCEPT !.pc = nxt,
                           !.l = [l EXCEPT !.all_posts = sort_desc(<<>>, l.all_posts)]]
       [] b.pc = "render" ->
            IF l.i > Len(l.pages) THEN [b EXCEPT !.pc = nxt]
            ELSE [b EXCEPT !.l = [l EXCEPT !.i = @ + 1],
                           !.files = render_page_files(f, l.pages[l.i], TRUE, l.all_posts),
                           !.dirs = render_page_dirs(d, l.pages[l.i])]
       [] b.pc = "tags" ->
            IF "tags" \notin templates THEN [b EXCEPT !.pc = nxt]
            ELSE [b EXCEPT !.pc = IF tag_pages_ok(l.tags) THEN nxt ELSE "failed",
                           !.files = tag_pages_files(f, l.tags),
                           !.dirs = makedirs(d, join(OUTPUT_DIR, <<"tags">>))]
       [] b.pc = "sitemap" ->
            [b EXCEPT !.pc = nxt,
                      !.files = WriteFile(f, join(OUTPUT_DIR, <<"sitemap", ".xml">>),
                                          [kind |-> "xml", pages |-> l.sitemap_list])]
       [] OTHER -> b

\* config and theme file, written by every invocation but --clean
write_theme_file_files(f) == WriteFile(f, GENERATED_THEME_PATH, [kind |-> "css"])
write_theme_file_dirs(d) == makedirs(d, dirname(GENERATED_THEME_PATH))

StartBuild(f, d) ==
  [pc |-> "clean", files |-> write_theme_file_files(f),
   dirs |-> write_theme_file_dirs(d), l |-> NoLocals]

RECURSIVE Run(_)
Run(b) == IF b.pc \in {"done", "failed"} THEN b ELSE Run(Step(b))

\* main() with no arguments, run to its end
main_full(f, d) == Run(StartBuild(f, d))

----------------------------------------------------------------------------
(* Single-file build and --clean *)

\* a slip that lets the fingerprint gate block the rebuild
main_file_files_gated(f, d, file) ==
  IF ~exists(f, d, file)
  THEN LET slug == splitext(basename(file))[1]
           out_dir == join(OUTPUT_DIR, slug)
           g == IF slug # <<"index">> /\ isdir(d, out_dir)
                THEN rmtree_files(f, out_dir) ELSE f
       IN RemoveFiles(g, {PAGE_SLUG_CACHE})
  ELSE LET g == has_file_changed_files(f, file)
           p == parse_file(g, file)
       IN IF ~p.found \/ ~has_file_changed(f, file) THEN g
          ELSE render_page_files(g, p, FALSE, <<>>)

\* main() with --file
main_file_files(f, d, file) ==
  IF ~exists(f, d, file)
  THEN LET slug == splitext(basename(file))[1]
           out_dir == join(OUTPUT_DIR, slug)
           g == IF slug # <<"index">> /\ isdir(d, out_dir)
                THEN rmtree_files(f, out_dir) ELSE f
       IN RemoveFiles(g, {PAGE_SLUG_CACHE})
  ELSE LET g == has_file_changed_files(f, file)
           p == parse_file(g, file)
       IN IF ~p.found THEN g ELSE render_page_files(g, p, FALSE, <<>>)

main_file_dirs(f, d, file) ==
  IF ~exists(f, d, file)
  THEN LET slug == splitext(basename(file))[1]
           out_dir == join(OUTPUT_DIR, slug)
       IN IF slug # <<"index">> /\ isdir(d, out_dir)
          THEN rmtree_dirs(d, out_dir) ELSE d
  ELSE LET p == parse_file(f, file)
       IN IF ~p.found THEN has_file_changed_dirs(d)
          ELSE render_page_dirs(has_file_changed_dirs(d), p)

\* main() with --clean
main_clean_files(f) == RemoveFiles(clean_output_files(f), {PAGE_SLUG_CACHE})
main_clean_dirs(f, d) == clean_output_dirs(f, d)

----------------------------------------------------------------------------
(* ImageRewriter: the <picture> built for one manifest entry *)

format_priority == <<"avif", "webp", "jpg", "jpeg", "png">>
fallback_priority == <<"jpg", "jpeg", "png", "webp", "avif">>

mime(fmt) == IF fmt \in {"jpg", "jpeg"} THEN "image/jpeg" ELSE "image/" \o fmt

\* manifest_entry.get(fmt) is truthy: the key is there and its list is not empty
has_format(manifest_entry, fmt) ==
  manifest_entry[fmt].present /\ manifest_entry[fmt].variants # <<>>

\* v.get("path") and v.get("width")
usable(v) == v.path # <<>> /\ v.width # 0

\* sorted(..., key=width): ascending, equal widths keep their order
insert_by_width(sortedseq, v) ==
  LET n == Cardinality({k \in 1..Len(sortedseq) : sortedseq[k].width <= v.width})
  IN SubSeq(sortedseq, 1, n) \o <<v>> \o SubSeq(sortedseq, n + 1, Len(sortedseq))

RECURSIVE sort_by_width(_, _)
sort_by_width(done, rest) ==
  IF rest = <<>> THEN done
  ELSE sort_by_width(IF usable(Head(rest)) THEN insert_by_width(done, Head(rest)) ELSE done,
                     Tail(rest))

sorted_variants(manifest_entry, fmt) ==
  sort_by_width(<<>>, manifest_entry[fmt].variants)

\* "/<path> <width>w" for each variant
srcset_of(variants) ==
  [k \in 1..Len(variants) |-> [path |-> <<Sep>> \o variants[k].path, w |-> variants[k].width]]

RECURSIVE build_sources(_, _, _)
build_sources(manifest_entry, fmts, sizes_value) ==
  IF fmts = <<>> THEN <<>>
  ELSE LET fmt == Head(fmts)
           rest == build_sources(manifest_entry, Tail(fmts), sizes_value)
       IN IF ~has_format(manifest_entry, fmt) \/ sorted_variants(manifest_entry, fmt) = <<>>
          THEN rest
          ELSE <<[type |-> mime(fmt),
                  srcset |-> srcset_of(sorted_variants(manifest_entry, fmt)),
                  sizes |-> sizes_value]>> \o rest

\* next((fmt for fmt in fallback_priority if manifest_entry.get(fmt)), None)
fallback_format(manifest_entry) ==
  LET hits == {k \in 1..Len(fallback_priority) : has_format(manifest_entry, fallback_priority[k])}
  IN IF hits = {} THEN "" ELSE fallback_priority[SetMin(hits)]

attr_value(attrs, name, default) ==
  LET hits == {k \in 1..Len(attrs) : attrs[k][1] = name}
  IN IF hits = {} \/ attrs[SetMax(hits)][2] = "" THEN default ELSE attrs[SetMax(hits)][2]

sizes_of(attrs) ==
  attr_value(attrs, "data-img-sizes", attr_value(attrs, "sizes", "100vw"))

filtered_attrs(attrs) ==
  SelectSeq(attrs, LAMBDA a : a[1] \notin {"src", "srcset", "sizes", "data-img-sizes"})

NoPicture == [rewritten |-> FALSE, sources |-> <<>>, src |-> <<>>, srcset |-> <<>>,
              sizes |-> "", attrs |-> <<>>]

_build_picture_element(attrs, manifest_entry) ==
  LET sources == build_sources(manifest_entry, format_priority, sizes_of(attrs))
      fmt == fallback_format(manifest_entry)
      fallback_variants == sorted_variants(manifest_entry, fmt)
  IN IF sources = <<>> THEN NoPicture
     ELSE IF fmt = "" THEN NoPicture
     ELSE IF fallback_variants = <<>> THEN NoPicture
     ELSE [rewritten |-> TRUE, sources |-> sources,
           src |-> <<Sep>> \o fallback_variants[Len(fallback_variants)].path,
           srcset |-> srcset_of(fallback_variants),
           sizes |-> sizes_of(attrs),
           attrs |-> filtered_attrs(attrs)]

----------------------------------------------------------------------------
(* Content documents the model edits *)

TopIndex == <<"content", Sep, "index", ".md">>
TopAbout == <<"content", Sep, "about", ".md">>
TopPosts == <<"content", Sep, "posts", ".md">>
PostAbout == <<"content", Sep, "posts", Sep, "about", ".md">>
PostPosts == <<"content", Sep, "posts", Sep, "posts", ".md">>

Sources == {TopIndex, TopAbout, TopPosts, PostAbout}

UserFile == <<"about", Sep, "photo", ".png">>

Doc(draft, layout, date, tags, url, body) ==
  [kind |-> "md",
   meta |-> [draft |-> draft, layout |-> layout, date |-> date, tags |-> tags, url |-> url],
   body |-> body]

PageDoc == Doc(<<"none", "None">>, "page", NoDate, <<>>, <<Sep, "custom">>, 1)
DraftDoc == Doc(<<"str", "Yes">>, "page", NoDate, <<>>, <<>>, 1)
PostDoc == Doc(<<"none", "None">>, "post", [k |-> "iso", n |-> 1], <<"t">>, <<>>, 1)
DraftPost == Doc(<<"bool", "True">>, "post", [k |-> "iso", n |-> 1], <<"t">>, <<>>, 1)

Pool(src) ==
  CASE src = TopIndex -> {PageDoc}
    [] src = TopAbout -> {PageDoc, DraftDoc}
    [] src = TopPosts -> {PageDoc}
    [] src = PostAbout -> {PostDoc, DraftPost}
    [] OTHER -> {}

NoSnap == [valid |-> FALSE, files |-> [q \in {} |-> 0], dirs |-> {}]

NoImg == [entry |-> <<>>, attrs |-> <<>>, done |-> FALSE, out |-> NoPicture]

Idle == [op |-> "init", file |-> <<>>, existed |-> FALSE, fp |-> "none"]

\* what an interrupted build would have left, and where it stopped
NoRec == [phase |-> "none", at |-> "", want |-> [q \in {} |-> 0], stale |-> {}]

\* a checkout before any build: some of the documents, nothing generated
Init ==
  /\ \E present \in SUBSET Sources :
       \E c \in [present -> UNION {Pool(x) : x \in Sources}] :
         /\ \A x \in present : c[x] \in Pool(x)
         /\ files = c
  /\ dirs = {CONTENT_DIR, POSTS_DIR}
  /\ pc = "idle"
  /\ loc = NoLocals
  /\ last = Idle
  /\ snap = NoSnap
  /\ prev = NoSnap
  /\ ops = 0
  /\ img = NoImg
  /\ rec = NoRec

----------------------------------------------------------------------------
(* Actions *)

WriteDoc(src, c) ==
  /\ pc = "idle" /\ ops < MaxOps
  /\ src \in DOMAIN files => files[src] # c
  /\ files' = WriteFile(files, src, c)
  /\ last' = [Idle EXCEPT !.op = "edit", !.file = src]
  /\ prev' = NoSnap
  /\ ops' = ops + 1
  /\ rec' = NoRec
  /\ UNCHANGED <<dirs, pc, loc, snap, img>>

RemoveDoc(src) ==
  /\ pc = "idle" /\ ops < MaxOps
  /\ src \in DOMAIN files
  /\ files' = RemoveFiles(files, {src})
  /\ last' = [Idle EXCEPT !.op = "edit", !.file = src]
  /\ prev' = NoSnap
  /\ ops' = ops + 1
  /\ rec' = NoRec
  /\ UNCHANGED <<dirs, pc, loc, snap, img>>

\* somebody drops a file of their own next to a generated page
PutUserFile ==
  /\ pc = "idle" /\ ops < MaxOps
  /\ UserFile \notin DOMAIN files
  /\ files' = WriteFile(files, UserFile, [kind |-> "png"])
  /\ dirs' = makedirs(dirs, dirname(UserFile))
  /\ last' = [Idle EXCEPT !.op = "edit", !.file = UserFile]
  /\ prev' = NoSnap
  /\ ops' = ops + 1
  /\ rec' = NoRec
  /\ UNCHANGED <<pc, loc, snap, img>>

FullBuild ==
  /\ pc = "idle" /\ ops < MaxOps
  /\ LET b == main_full(files, dirs)
     IN /\ files' = b.files
        /\ dirs' = b.dirs
        /\ snap' = [valid |-> TRUE, files |-> b.files, dirs |-> b.dirs]
        /\ last' = [Idle EXCEPT !.op = "full", !.fp = b.pc]
  /\ prev' = snap
  /\ ops' = ops + 1
  /\ rec' = NoRec
  /\ UNCHANGED <<pc, loc, img>>

Fingerprint(f, file) ==
  IF hash_file(file) \notin DOMAIN f THEN "absent"
  ELSE IF has_file_changed(f, file) THEN "different" ELSE "equal"

FileBuild(file) ==
  /\ pc = "idle" /\ ops < MaxOps
  /\ LET f == write_theme_file_files(files)
         d == write_theme_file_dirs(dirs)
     IN /\ files' = main_file_files(f, d, file)
        /\ dirs' = main_file_dirs(f, d, file)
        /\ last' = [op |-> "file", file |-> file, existed |-> exists(f, d, file),
                    fp |-> IF exists(f, d, file) THEN Fingerprint(f, file) ELSE "none"]
  /\ snap' = NoSnap
  /\ prev' = NoSnap
  /\ ops' = ops + 1
  /\ rec' = NoRec
  /\ UNCHANGED <<pc, loc, img>>

Clean ==
  /\ pc = "idle" /\ ops < MaxOps
  /\ files' = main_clean_files(files)
  /\ dirs' = main_clean_dirs(files, dirs)
  /\ last' = [Idle EXCEPT !.op = "clean"]
  /\ snap' = NoSnap
  /\ prev' = NoSnap
  /\ ops' = ops + 1
  /\ rec' = NoRec
  /\ UNCHANGED <<pc, loc, img>>

Next ==
  \/ \E src \in Sources : \E c \in Pool(src) : WriteDoc(src, c)
  \/ \E src \in Sources : RemoveDoc(src)
  \/ PutUserFile
  \/ FullBuild
  \/ \E src \in Sources : FileBuild(src)
  \/ Clean

Spec == Init /\ [][Next]_vars

----------------------------------------------------------------------------
(* The full build taken one step at a time *)

BeginBuild ==
  /\ pc = "idle" /\ ops < MaxOps
  /\ LET b == StartBuild(files, dirs)
     IN /\ files' = b.files
        /\ dirs' = b.dirs
        /\ pc' = b.pc
        /\ loc' = b.l
  /\ last' = [Idle EXCEPT !.op = "building"]
  /\ rec' = IF rec.phase = "crashed"
            THEN [rec EXCEPT !.phase = "rerun"]
            ELSE [phase |-> "first", at |-> "", want |-> main_full(files, dirs).files,
                  stale |-> {slug \in stale(load_previous_slugs(files),
                                             scan(files, dirs, NoLocals).current_slugs) :
                               prunable(slug)}]
  /\ ops' = ops + 1
  /\ UNCHANGED <<snap, prev, img>>

BuildStep ==
  /\ pc \notin {"idle", "done", "failed"}
  /\ LET b == Step([pc |-> pc, files |-> files, dirs |-> dirs, l |-> loc])
     IN /\ files' = b.files
        /\ dirs' = b.dirs
        /\ pc' = b.pc
        /\ loc' = b.l
  /\ UNCHANGED <<last, snap, prev, ops, img, rec>>

EndBuild ==
  /\ pc \in {"done", "failed"}
  /\ pc' = "idle"
  /\ loc' = NoLocals
  /\ last' = [Idle EXCEPT !.op = "full", !.fp = pc]
  /\ snap' = [valid |-> TRUE, files |-> files, dirs |-> dirs]
  /\ prev' = snap
  /\ rec' = IF rec.phase = "rerun" THEN [rec EXCEPT !.phase = "recovered"] ELSE NoRec
  /\ UNCHANGED <<files, dirs, ops, img>>

NextSteps ==
  \/ \E src \in Sources : \E c \in Pool(src) : WriteDoc(src, c)
  \/ \E src \in Sources : RemoveDoc(src)
  \/ PutUserFile
  \/ BeginBuild
  \/ BuildStep
  \/ EndBuild

SpecSteps == Init /\ [][NextSteps]_vars

----------------------------------------------------------------------------
(* A full build cut short, then run again *)

\* a site as a finished full build leaves it, with or without a file of
\* the user's own next to a page
InitBuilt ==
  /\ \E present \in SUBSET Sources :
       \E c \in [present -> UNION {Pool(x) : x \in Sources}] :
         \E own \in BOOLEAN :
           /\ \A x \in present : c[x] \in Pool(x)
           /\ LET f == IF own THEN WriteFile(c, UserFile, [kind |-> "png"]) ELSE c
                  d == IF own THEN makedirs({CONTENT_DIR, POSTS_DIR}, dirname(UserFile))
                       ELSE {CONTENT_DIR, POSTS_DIR}
              IN /\ files = main_full(f, d).files
                 /\ dirs = main_full(f, d).dirs
  /\ pc = "idle"
  /\ loc = NoLocals
  /\ last = Idle
  /\ snap = NoSnap
  /\ prev = NoSnap
  /\ ops = 1
  /\ img = NoImg
  /\ rec = NoRec

\* the process dies between two steps of the full build
Crash ==
  /\ pc \notin {"idle", "done", "failed"}
  /\ pc' = "idle"
  /\ loc' = NoLocals
  /\ last' = [Idle EXCEPT !.op = "crash", !.fp = pc]
  /\ rec' = [rec EXCEPT !.phase = "crashed", !.at = IF rec.phase = "first" THEN pc ELSE @]
  /\ snap' = NoSnap
  /\ prev' = NoSnap
  /\ UNCHANGED <<files, dirs, ops, img>>

NextCrash ==
  \/ \E src \in Sources : \E c \in Pool(src) : WriteDoc(src, c)
  \/ \E src \in Sources : RemoveDoc(src)
  \/ BeginBuild
  \/ BuildStep
  \/ EndBuild
  \/ Crash

SpecCrash == InitBuilt /\ [][NextCrash]_vars

----------------------------------------------------------------------------
(* A page named after a preserved root *)

TopAssets == <<"content", Sep, "assets", ".md">>

AssetFile == <<"assets", Sep, "logo", ".png">>

RootSources == {TopAssets, TopAbout, PostAbout}

RootPool(src) == IF src = TopAssets THEN {PageDoc, DraftDoc} ELSE Pool(src)

\* a checkout with an image of the site's own under assets/
InitRoots ==
  /\ \E present \in SUBSET RootSources :
       \E c \in [present -> UNION {RootPool(x) : x \in RootSources}] :
         /\ \A x \in present : c[x] \in RootPool(x)
         /\ files = WriteFile(c, AssetFile, [kind |-> "png"])
  /\ dirs = makedirs({CONTENT_DIR, POSTS_DIR}, dirname(AssetFile))
  /\ pc = "idle"
  /\ loc = NoLocals
  /\ last = Idle
  /\ snap = NoSnap
  /\ prev = NoSnap
  /\ ops = 0
  /\ img = NoImg
  /\ rec = NoRec

NextRoots ==
  \/ \E src \in RootSources : \E c \in RootPool(src) : WriteDoc(src, c)
  \/ \E src \in RootSources : RemoveDoc(src)
  \/ FullBuild
  \/ \E src \in RootSources : FileBuild(src)
  \/ Clean

SpecRoots == InitRoots /\ [][NextRoots]_vars

----------------------------------------------------------------------------
(* Posts with dates and tags, built in full *)

TagSources == {PostAbout, PostPosts}

TagPool ==
  {Doc(<<"none", "None">>, "post", [k |-> "iso", n |-> w], <<"t">>, <<>>, 1) : w \in 1..2}
  \cup {Doc(<<"none", "None">>, "post", NoDate, <<"t">>, <<>>, 1),
        Doc(<<"none", "None">>, "post", [k |-> "iso", n |-> 2], <<"u", "t">>, <<>>, 1),
        Doc(<<"int", "1">>, "post", NoDate, <<"t">>, <<>>, 1)}

InitTags ==
  /\ \E present \in SUBSET TagSources :
       \E c \in [present -> TagPool] : files = c
  /\ dirs = {CONTENT_DIR, POSTS_DIR}
  /\ pc = "idle"
  /\ loc = NoLocals
  /\ last = Idle
  /\ snap = NoSnap
  /\ prev = NoSnap
  /\ ops = 0
  /\ img = NoImg
  /\ rec = NoRec

NextTags ==
  \/ \E src \in TagSources : \E c \in TagPool : WriteDoc(src, c)
  \/ FullBuild

SpecTags == InitTags /\ [][NextTags]_vars

----------------------------------------------------------------------------
(* One image tag rewritten against one manifest entry *)

Formats == {"avif", "webp", "jpg", "jpeg", "png"}

Variant(fmt, w) == [path |-> <<"img", Sep, fmt, w>>, width |-> w]

\* the variant lists a manifest gives a format: none usable, one, several
\* out of order with a width missing in between
VariantLists(fmt) ==
  {<<[path |-> <<>>, width |-> 1]>>}
  \cup {<<Variant(fmt, w)>> : w \in 1..MaxWidth}
  \cup {<<Variant(fmt, MaxWidth), [path |-> <<"img", Sep, fmt, 0>>, width |-> 0],
          Variant(fmt, 1)>>}

Absent == [present |-> FALSE, variants |-> <<>>]

ImgTags ==
  {<<<<"src", "/assets/images/cat.jpg">>, <<"alt", "c">>>>,
   <<<<"src", "/assets/images/cat.jpg">>, <<"sizes", "50vw">>, <<"data-img-sizes", "33vw">>>>}

InitImg ==
  /\ \E e \in [Formats -> {Absent} \cup UNION {{[present |-> TRUE, variants |-> l] :
                                                  l \in VariantLists(x)} : x \in Formats}] :
       \E a \in ImgTags :
         /\ \A x \in Formats : e[x].present => e[x].variants \in VariantLists(x)
         /\ img = [entry |-> e, attrs |-> a, done |-> FALSE, out |-> NoPicture]
  /\ files = [q \in {} |-> 0]
  /\ dirs = {}
  /\ pc = "idle"
  /\ loc = NoLocals
  /\ last = Idle
  /\ snap = NoSnap
  /\ prev = NoSnap
  /\ ops = 0
  /\ rec = NoRec

Rewrite ==
  /\ ~img.done
  /\ img' = [img EXCEPT !.done = TRUE,
                         !.out = _build_picture_element(img.attrs, img.entry)]
  /\ UNCHANGED <<files, dirs, pc, loc, last, snap, prev, ops, rec>>

NextImg == Rewrite

SpecImg == InitImg /\ [][NextImg]_vars

----------------------------------------------------------------------------
(* Properties *)

Slug(src) == splitext(basename(src))[1]

InPosts(src) == dirname(src) = POSTS_DIR

SuccessiveBuilds == last.op = "full" /\ prev.valid

\* the document at src was compiled as a non-draft page in tree f
BuiltFrom(f, src) == src \in DOMAIN f /\ ~is_draft(f[src].meta)

\* directories a full build makes for itself after the reconciliation
RebuiltRoots == {<<"posts">>, <<"tags">>, <<".cache">>}

RemovedTop(src) ==
  /\ dirname(src) = CONTENT_DIR /\ Slug(src) # <<"index">>
  /\ BuiltFrom(prev.files, src) /\ src \notin DOMAIN files

\* C1 as stated: after the second of two successive full builds, the output
\* directory of a removed top-level non-index page no longer exists.
C1_Original ==
  SuccessiveBuilds =>
    \A src \in Sources : RemovedTop(src) => ~isdir(dirs, join(OUTPUT_DIR, Slug(src)))

\* C1 amended: the directory of a removed top-level non-index page is gone
\* after the second build unless its slug names a directory the build makes
\* again for itself (posts, tags, .cache).
C1_StalePageDirRemoved ==
  SuccessiveBuilds =>
    \A src \in Sources :
      RemovedTop(src) /\ Slug(src) \notin RebuiltRoots
        => ~isdir(dirs, join(OUTPUT_DIR, Slug(src)))

C1_Witness ==
  /\ SuccessiveBuilds /\ RemovedTop(TopAbout)
  /\ UserFile \in DOMAIN prev.files
  /\ ~isdir(dirs, <<"about">>)

PostPage(src) == normpath(output_path([url |-> <<Sep, "posts", Sep>> \o Slug(src)]))

RemovedPost(src) ==
  /\ InPosts(src)
  /\ PostPage(src) \in DOMAIN prev.files /\ prev.files[PostPage(src)].src = src
  /\ src \notin DOMAIN files

IsPage(c) == c.kind = "html" /\ c.template # "tags"

\* C3: no build path writes a page for a document whose draft value is
\* true, "1" or "yes": no rendered page in the tree comes from a draft.
C3_NoDraftArtifact ==
  \A q \in DOMAIN files : IsPage(files[q]) => ~is_draft(files[q].page)

Inputs(f) == [q \in {r \in DOMAIN f : Under(r, CONTENT_DIR)} |-> f[q]]

Artifacts(f) == [q \in {r \in DOMAIN f : f[r].kind \in {"html", "xml"}} |-> f[q]]

SlugFile(f) == [q \in DOMAIN f \cap {PAGE_SLUG_CACHE} |-> f[q]]

\* C4: a full build that follows a full build on unchanged documents leaves
\* the same generated pages, tag pages and sitemap, and the same slug cache.
C4_Idempotent ==
  (SuccessiveBuilds /\ Inputs(prev.files) = Inputs(files)) =>
    /\ Artifacts(files) = Artifacts(prev.files)
    /\ SlugFile(files) = SlugFile(prev.files)

C4_Witness ==
  /\ SuccessiveBuilds /\ Inputs(prev.files) = Inputs(files)
  /\ PostPage(PostAbout) \in DOMAIN files
  /\ TopPosts \notin DOMAIN files
  /\ normpath(join(OUTPUT_DIR, <<"sitemap", ".xml">>)) \in DOMAIN files
  /\ load_previous_slugs(files) # {}

\* the directory the claim expects a deleted document's page to have lived in
PageDir(src) == IF InPosts(src) THEN <<"posts", Sep>> \o Slug(src) ELSE Slug(src)

\* C5: a single-file build of a path that no longer exists removes the
\* page directory of every document but the index (posts/<slug> for a post,
\* <slug> otherwise) and leaves no slug cache.
C5_DeletedFileBuild ==
  (last.op = "file" /\ ~last.existed) =>
    /\ last.file # TopIndex => ~isdir(dirs, join(OUTPUT_DIR, PageDir(last.file)))
    /\ PAGE_SLUG_CACHE \notin DOMAIN files

\* the url the claim assigns to a source path
ClaimedUrl(src) ==
  IF InPosts(src) THEN <<Sep, "posts", Sep>> \o Slug(src)
  ELSE IF Slug(src) = <<"index">> THEN <<Sep>>
  ELSE <<Sep>> \o Slug(src)

\* C8: every compiled document carries /posts/<slug> exactly when it lies
\* under the posts subtree, / for the index and /<slug> otherwise, whatever
\* url its metadata gave.
C8_UrlDerivation ==
  \A q \in DOMAIN files :
    IsPage(files[q]) => files[q].page.url = ClaimedUrl(files[q].src)

\* C9: a single-file build of an existing file compiles and renders it
\* whatever the stored fingerprint was, and leaves the fingerprint equal to
\* the hash of the file's bytes.
C9_FingerprintRefreshed ==
  (last.op = "file" /\ last.existed) =>
    LET p == parse_file(files, last.file)
    IN /\ hash_file(last.file) \in DOMAIN files
       /\ files[hash_file(last.file)].digest = Md5(files[last.file])
       /\ p.data.layout \in templates =>
            /\ normpath(output_path(p.data)) \in DOMAIN files
            /\ files[normpath(output_path(p.data))] = final_html(p, FALSE, <<>>)

C9_Witness ==
  /\ last.op = "file" /\ last.existed /\ last.fp = "equal"
  /\ files[hash_file(last.file)].digest = Md5(files[last.file])
  /\ normpath(output_path(parse_file(files, last.file).data)) \in DOMAIN files


\* C10: within a full build the slug cache is overwritten only once the stale
\* set has been taken from the previously persisted set and every stale
\* non-post, non-index directory is gone.
C10_SaveAfterReconcile ==
  [][(pc # "idle" /\ PAGE_SLUG_CACHE \in DOMAIN files'
        /\ SlugFile(files') # SlugFile(files))
      => /\ pc = "save"
         /\ loc.removed = load_previous_slugs(files) \ loc.current_slugs
         /\ loc.todo = {}
         /\ \A slug \in loc.removed :
              prunable(slug) => ~isdir(dirs, join(OUTPUT_DIR, slug))]_vars

C10_Witness ==
  /\ pc = "sort"
  /\ <<"about">> \in loc.removed
  /\ load_previous_slugs(files) = loc.current_slugs
  /\ UserFile \in DOMAIN snap.files /\ UserFile \notin DOMAIN files
  /\ ~isdir(dirs, <<"about">>)


\* the first format in the fallback order with a variant that has both a
\* path and a positive width
FirstUsable(e) ==
  LET hits == {k \in 1..Len(fallback_priority) :
                 e[fallback_priority[k]].present
                 /\ \E i \in 1..Len(e[fallback_priority[k]].variants) :
                      usable(e[fallback_priority[k]].variants[i])}
  IN IF hits = {} THEN "" ELSE fallback_priority[SetMin(hits)]

\* C6: whenever some format of the entry has a usable variant, the fallback
\* <img> is built from the first such format in the order jpg, jpeg, png,
\* webp, avif: src is its widest usable variant, srcset lists its usable
\* variants by ascending width.
C6_FallbackSelection ==
  (img.done /\ FirstUsable(img.entry) # "") =>
    LET vs == sorted_variants(img.entry, FirstUsable(img.entry))
    IN /\ img.out.rewritten
       /\ img.out.src = <<Sep>> \o vs[Len(vs)].path
       /\ img.out.srcset = srcset_of(vs)
       /\ \A k \in 1..(Len(vs) - 1) : vs[k].width <= vs[k + 1].width

TaggedPosts(tag) ==
  {src \in DOMAIN files :
     /\ InPosts(src) /\ files[src].kind = "md" /\ ~is_draft(files[src].meta)
     /\ files[src].meta.layout = "post" /\ tag \in Range(files[src].meta.tags)}

TagPage(tag) == <<"tags", Sep, tag, ".html">>

DateKey(page_data) == IF page_data.date.k = "ymd" THEN page_data.date.n ELSE 0

\* C7: after a full build every tag carried by a post has its listing page,
\* holding the posts with that tag by descending date with undated posts
\* last; tag-page generation does not fail on an undated post.
C7_TagOrder ==
  last.op = "full" =>
    \A tag \in {"t", "u"} :
      TaggedPosts(tag) # {} =>
        /\ TagPage(tag) \in DOMAIN files
        /\ LET ps == files[TagPage(tag)].posts
           IN /\ {ps[k].url : k \in 1..Len(ps)} = {derive_url(src) : src \in TaggedPosts(tag)}
              /\ \A k \in 1..(Len(ps) - 1) : DateKey(ps[k]) >= DateKey(ps[k + 1])


Recovered == rec.phase = "recovered"

\* C11 as stated: a full build cut short at any step and then run again to
\* its end on the same documents leaves the artifacts and the slug cache of
\* an uninterrupted build, and no directory of a removed top-level page.
C11_Original ==
  Recovered =>
    /\ Artifacts(files) = Artifacts(rec.want)
    /\ SlugFile(files) = SlugFile(rec.want)
    /\ \A slug \in rec.stale : ~isdir(dirs, join(OUTPUT_DIR, slug))

\* C11 amended: the same, but a removed page's directory may be there again
\* when its slug names a directory the build makes for itself (posts, tags,
\* .cache).
C11_CrashRecovery ==
  Recovered =>
    /\ Artifacts(files) = Artifacts(rec.want)
    /\ SlugFile(files) = SlugFile(rec.want)
    /\ \A slug \in rec.stale \ RebuiltRoots : ~isdir(dirs, join(OUTPUT_DIR, slug))

C11_Witness ==
  /\ Recovered /\ rec.at = "sort"
  /\ <<"about">> \in rec.stale /\ ~isdir(dirs, <<"about">>)
  /\ PostPage(PostAbout) \in DOMAIN files
  /\ load_previous_slugs(files) # {}


\* a path under one of the preserved roots, the slug cache file aside
Preserved(q) == top_level(dirname(q)) \in preserved_roots /\ q # PAGE_SLUG_CACHE

PipelineStep == ops' = ops + 1 /\ last'.op \in {"full", "file", "clean"}

\* C12: no full build, single-file build or --clean takes away a file or a
\* directory under a preserved root, whatever the documents are called.
C12_PreservedRootsKept ==
  [][PipelineStep =>
       /\ \A q \in DOMAIN files : Preserved(q) => q \in DOMAIN files'
       /\ \A q \in dirs : top_level(q) \in preserved_roots => q \in dirs']_vars

====
